---------------------------- MODULE Spec2Model ----------------------------
(***************************************************************************)
(* The cascading filter engine of the collections front end: the filter    *)
(* panel (FilterBar, in its current and its older variant; MobileFilterBar *)
(* has the current variant's logic), the parent hook's applied filters     *)
(* (useCascadingFilters.handleFilterChange) and the name -> ID resolution  *)
(* used to build the cascading request.                                    *)
(*                                                                         *)
(* A display name is a sequence of characters, so that normalize() and     *)
(* Array.prototype.sort() are computed as the code computes them.  A       *)
(* request parameter is a sequence of IDs: <<>> is `undefined', <<7>> is   *)
(* the number 7 and <<7, 9>> is the string "7,9" built by ids.join(',').   *)
(***************************************************************************)
EXTENDS Integers, Sequences, FiniteSets, TLC

(***************************************************************************)
(* Characters and names.                                                   *)
(***************************************************************************)
NBSP == "nbsp"

Chars == {"A", "a", "B", "b", " ", NBSP}

IsSpace(c) == c \in {" ", NBSP}

\* UTF-16 code units, the order Array.prototype.sort() compares by.
CharCode(c) ==
  CASE c = " "  -> 32
    [] c = "A"  -> 65
    [] c = "B"  -> 66
    [] c = "a"  -> 97
    [] c = "b"  -> 98
    [] c = NBSP -> 160

ToLowerChar(c) ==
  CASE c = "A" -> "a"
    [] c = "B" -> "b"
    [] OTHER   -> c

\* s.replace(/\u00A0/g, ' ')
ReplaceNbsp(s) == [i \in 1..Len(s) |-> IF s[i] = NBSP THEN " " ELSE s[i]]

\* s.replace(/\s+/g, ' '): every run of white space becomes one space.
RECURSIVE CollapseWs(_)
CollapseWs(s) ==
  IF s = <<>> THEN <<>>
  ELSE IF IsSpace(s[1])
       THEN IF Len(s) > 1 /\ IsSpace(s[2])
            THEN CollapseWs(Tail(s))
            ELSE <<" ">> \o CollapseWs(Tail(s))
       ELSE <<s[1]>> \o CollapseWs(Tail(s))

RECURSIVE TrimLeft(_)
TrimLeft(s) ==
  IF s # <<>> /\ IsSpace(s[1]) THEN TrimLeft(Tail(s)) ELSE s

RECURSIVE TrimRight(_)
TrimRight(s) ==
  IF s # <<>> /\ IsSpace(s[Len(s)]) THEN TrimRight(SubSeq(s, 1, Len(s) - 1)) ELSE s

\* s.trim()
Trim(s) == TrimRight(TrimLeft(s))

\* s.toLowerCase()
ToLowerCase(s) == [i \in 1..Len(s) |-> ToLowerChar(s[i])]

\* A mutant of normalize: the case fold is dropped.
normalize_NoLower(s) == Trim(CollapseWs(ReplaceNbsp(s)))

\* FilterBar.normalize
normalize(s) == ToLowerCase(Trim(CollapseWs(ReplaceNbsp(s))))

\* The default comparison of Array.prototype.sort(): by code units, a proper
\* prefix first.
RECURSIVE StrLess(_, _)
StrLess(a, b) ==
  IF b = <<>> THEN FALSE
  ELSE IF a = <<>> THEN TRUE
  ELSE IF a[1] = b[1] THEN StrLess(Tail(a), Tail(b))
  ELSE CharCode(a[1]) < CharCode(b[1])

RECURSIVE InsertSorted(_, _)
InsertSorted(x, s) ==
  IF s = <<>> THEN <<x>>
  ELSE IF StrLess(s[1], x) THEN <<s[1]>> \o InsertSorted(x, Tail(s))
  ELSE <<x>> \o s

\* names.sort(): ascending, in place (the caller's array is the one sorted).
RECURSIVE SortNames(_)
SortNames(s) ==
  IF s = <<>> THEN <<>> ELSE InsertSorted(s[1], SortNames(Tail(s)))

Range(s) == {s[i] : i \in 1..Len(s)}

(***************************************************************************)
(* Filter keys, option lists and request parameters.                       *)
(***************************************************************************)
Null == "null"

\* Object.keys(filters): the keys of the hook's filter state, in order.
KeyOrder ==
  << "branch", "teamLead", "rm", "sourceTeamLead", "sourceRm", "dealer",
     "lender", "status", "emiMonth", "repayment", "lastMonthBounce",
     "ptpDate", "vehicleStatus", "dpdBucket", "specialCaseFilter" >>

Keys == Range(KeyOrder)

CascadeKeys ==
  {"branch", "teamLead", "rm", "sourceTeamLead", "sourceRm", "dealer", "lender"}

Lists ==
  {"branches", "team_leads", "rms", "source_team_leads", "source_rms",
   "dealers", "lenders"}

ParamNames ==
  {"branch_id", "tl_id", "rm_id", "source_tl_id", "source_rm_id",
   "dealer_id", "lender_id"}

\* The filter key a request parameter is built from.
KeyOfParam(p) ==
  CASE p = "branch_id"    -> "branch"
    [] p = "tl_id"        -> "teamLead"
    [] p = "rm_id"        -> "rm"
    [] p = "source_tl_id" -> "sourceTeamLead"
    [] p = "source_rm_id" -> "sourceRm"
    [] p = "dealer_id"    -> "dealer"
    [] p = "lender_id"    -> "lender"

\* The ID map (and response list) a request parameter is resolved in.
ListOfParam(p) ==
  CASE p = "branch_id"    -> "branches"
    [] p = "tl_id"        -> "team_leads"
    [] p = "rm_id"        -> "rms"
    [] p = "source_tl_id" -> "source_team_leads"
    [] p = "source_rm_id" -> "source_rms"
    [] p = "dealer_id"    -> "dealers"
    [] p = "lender_id"    -> "lenders"

ParamOfKey(k) == CHOOSE p \in ParamNames : KeyOfParam(p) = k

EmptyFilters == [k \in Keys |-> <<>>]

(***************************************************************************)
(* Name -> ID maps.  A map is a function whose domain is the set of names  *)
(* that have an entry.                                                     *)
(***************************************************************************)
EmptyMap == [n \in {} |-> 0]

EmptyIdMaps == [l \in Lists |-> EmptyMap]

\* { ...prev, ...next }
Spread(prev, next) ==
  [n \in DOMAIN prev \cup DOMAIN next |->
     IF n \in DOMAIN next THEN next[n] ELSE prev[n]]

Current == "current"
Older == "older"

\* A mutant of NameKey: every component stores an item under its raw name.
NameKey_Raw(v, n) == n

\* The key an item is stored and looked up under: the current FilterBar (and
\* MobileFilterBar) normalizes, the older FilterBar and the hook use the raw name.
NameKey(v, n) == IF v = Current THEN normalize(n) ELSE n

\* Object.fromEntries(items.map(i => [key(i.name), i.id])): a later item with
\* the same key overwrites an earlier one.
RECURSIVE mergeIdMaps(_, _)
mergeIdMaps(v, items) ==
  IF items = <<>> THEN EmptyMap
  ELSE LET last == items[Len(items)]
           front == mergeIdMaps(v, SubSeq(items, 1, Len(items) - 1))
       IN  Spread(front, [n \in {NameKey(v, last.name)} |-> last.id])

\* A mutant of MergeResponse: the response replaces the maps.
MergeResponse_Replace(v, prev, res) ==
  [l \in Lists |-> mergeIdMaps(v, res[l])]

\* setIdMaps(prev => ({ list: { ...prev.list, ...mergeIdMaps(res.list) } }))
MergeResponse(v, prev, res) ==
  [l \in Lists |-> Spread(prev[l], mergeIdMaps(v, res[l]))]

\* The seed effect: setIdMaps({ list: toMap(res.list) }) replaces the maps.
SeedMaps(v, res) == [l \in Lists |-> mergeIdMaps(v, res[l])]

\* names.map(n => map[normalize(n)]).filter(v => typeof v === 'number')
RECURSIVE KnownIds(_, _)
KnownIds(map, names) ==
  IF names = <<>> THEN <<>>
  ELSE (IF normalize(names[1]) \in DOMAIN map
        THEN <<map[normalize(names[1])]>> ELSE <<>>)
       \o KnownIds(map, Tail(names))

\* A mutant of toIds: only the first selected name is resolved.
toIds_FirstOnly(map, names) ==
  IF names = <<>> THEN <<>>
  ELSE IF normalize(names[1]) \in DOMAIN map
       THEN <<map[normalize(names[1])]>> ELSE <<>>

\* buildSelectedIds.toIds of the current FilterBar and of MobileFilterBar:
\* the IDs of all selected names, joined by commas; undefined when none.
toIds(map, names) ==
  IF names = <<>> THEN <<>> ELSE KnownIds(map, names)

\* A mutant of toId: the last selected name is used.
toId_Last(map, names) ==
  IF names = <<>> THEN <<>>
  ELSE IF names[Len(names)] \in DOMAIN map
       THEN <<map[names[Len(names)]]>> ELSE <<>>

\* useCascadingFilters.toId: map[names[0]].
toId(map, names) ==
  IF names = <<>> THEN <<>>
  ELSE IF names[1] \in DOMAIN map THEN <<map[names[1]]>> ELSE <<>>

\* buildSelectedIds.pickFirstId of the older FilterBar: map[names[0]].
pickFirstId(map, names) ==
  IF names = <<>> THEN <<>>
  ELSE IF names[1] \in DOMAIN map THEN <<map[names[1]]>> ELSE <<>>

\* A mutant of buildSelectedIds: the open key is not omitted.
buildSelectedIds_NoOmit(v, temp, maps, omitKey) ==
  [p \in ParamNames |->
     IF v = Current
     THEN toIds(maps[ListOfParam(p)], temp[KeyOfParam(p)])
     ELSE pickFirstId(maps[ListOfParam(p)], temp[KeyOfParam(p)])]

\* buildSelectedIds: the current variant omits the open key (omitSet) and
\* resolves every selected name; the older variant takes no omitKey and
\* resolves the first name only.
buildSelectedIds(v, temp, maps, omitKey) ==
  [p \in ParamNames |->
     IF v = Current
     THEN IF KeyOfParam(p) = omitKey
          THEN <<>>
          ELSE toIds(maps[ListOfParam(p)], temp[KeyOfParam(p)])
     ELSE pickFirstId(maps[ListOfParam(p)], temp[KeyOfParam(p)])]

\* (arr || []).map(i => i.name)
toNames(items) == [i \in 1..Len(items) |-> items[i].name]

(***************************************************************************)
(* Bounds and input domains of the model.                                  *)
(***************************************************************************)
\* Cascading requests in flight at one time.
MaxInFlight == 2

\* handleTempFilterChange calls made back to back that the monitor follows.
MaxBurst == 3

n1 == <<"A">>
n2 == <<"B", NBSP>>

\* The selections the multi-select hands to onSelectionChange: no name twice.
SelValues == {<<>>, <<n1>>, <<n1, n2>>, <<n2, n1>>}

\* The dropdowns the user operates.
EditKeys == {"branch", "teamLead"}

\* The selections tried in each dropdown: every one of them in Branch, none
\* or one name in Team Lead.
Selections(k) == IF k = "branch" THEN SelValues ELSE {<<>>, <<n1>>}

Item(i, n) == [id |-> i, name |-> n]

Uniform(items) == [l \in Lists |-> items]

\* The unfiltered response of GET /filters/cascading (no parameters).
SeedResponse == Uniform(<<Item(1, n1), Item(2, n2)>>)

\* Filtered responses of GET /filters/cascading.
CascadeResponses == {Uniform(<<Item(1, n1)>>), Uniform(<<Item(1, n1), Item(2, n2)>>)}

(***************************************************************************)
(* State.                                                                  *)
(***************************************************************************)
VARIABLES
  variant,            \* which FilterBar is mounted: Current or Older
  filters,            \* useCascadingFilters: the applied filters (the panel's prop)
  tempFilters,        \* FilterBar: the panel's temporary filters
  isOpen,             \* FilterBar: the panel is open
  activeOpenKey,      \* FilterBar: the dropdown that is open, or Null
  lastChangedKeyRef,  \* FilterBar: lastChangedKeyRef.current
  idMaps,             \* FilterBar: name -> ID maps
  cascadeOverrides,   \* FilterBar: [keys: the lists present, val: their names]
  timers,             \* pending setTimeout callbacks, each with its closure
  timeout,            \* the pending timer the cascading effect's cleanup clears
  inflight,           \* cascading requests sent and not yet settled, oldest first
  seed,               \* the seed request: "pending", or "done" once settled
  lastOp,             \* the step just taken
  calls,              \* the onFilterChange calls the step just taken made
  sent,               \* the cascading request the step just taken sent
  monitor,            \* whether bursts of changes are followed
  burst,              \* keys of the changes made back to back, no timer expiring
  burstFires,         \* timers expired since the last change of the burst
  pure,               \* a parameter builder applied to inputs, outside any panel
  hook,               \* useCascadingFilters followed on its own: its state and refs
  otp                 \* OTPVerificationModal followed on its own: its state and refs

vars ==
  << variant, filters, tempFilters, isOpen, activeOpenKey, lastChangedKeyRef,
     idMaps, cascadeOverrides, timers, timeout, inflight, seed, lastOp, calls,
     sent, monitor, burst, burstFires, pure, hook, otp >>

\* No parameter builder is being followed.
NoPure == [fn |-> "none"]

\* The hook is not being followed.
NoHook == [on |-> FALSE]

\* The OTP modal is not being followed.
NoOtp == [on |-> FALSE]

\* useState({}) of cascadeOverrides, and setCascadeOverrides({}).
NoOverrides == [keys |-> {}, val |-> [l \in Lists |-> <<>>]]

\* The overrides built from a response: all seven lists.
OverridesOf(res) == [keys |-> Lists, val |-> [l \in Lists |-> toNames(res[l])]]

\* What is recorded of a step: the operation; for a settled request, whether
\* a newer request had been sent (stale) and whether it was the request of
\* the burst; whether tempFilters differed from filters and whether
\* overrides were present before the step; whether a debounce timer was
\* pending before the step.
Op(name, stale, ofBurst) ==
  [op |-> name, stale |-> stale, ofBurst |-> ofBurst,
   dirty |-> name = "cancel" /\ tempFilters # filters,
   hadOv |-> name \in {"cancel", "failure"} /\ cascadeOverrides.keys # {},
   hadTimer |-> name \in {"cancel", "apply"} /\ timers # {}]

InitPanel(v, m) ==
  /\ variant = v
  /\ filters = EmptyFilters
  /\ tempFilters = EmptyFilters
  /\ isOpen = FALSE
  /\ activeOpenKey = Null
  /\ lastChangedKeyRef = Null
  /\ idMaps = EmptyIdMaps
  /\ cascadeOverrides = NoOverrides
  /\ timers = {}
  /\ timeout = {}
  /\ inflight = <<>>
  /\ seed = "pending"
  /\ lastOp = [op |-> "mount", stale |-> FALSE, ofBurst |-> FALSE,
               dirty |-> FALSE, hadOv |-> FALSE, hadTimer |-> FALSE]
  /\ calls = <<>>
  /\ sent = {}
  /\ monitor = m
  /\ burst = <<>>
  /\ burstFires = 0

(***************************************************************************)
(* The panel's effects and handlers.                                       *)
(***************************************************************************)
\* A mutant of clearTimeout: the superseded timer is left pending.
clearTimeout_Noop(ts, t) == ts

\* The cleanup of the cascading effect: clearTimeout(timeout).
clearTimeout(ts, t) == ts \ t

\* A mutant of Closure: the callback reads the activeOpenKey of the render
\* before the one whose effect created the timer.
Closure_StaleKey(temp, key) == [temp |-> temp, idMaps |-> idMaps, omit |-> activeOpenKey]

\* The closure of the setTimeout callback: the tempFilters, idMaps and
\* activeOpenKey of the render whose effect created the timer.
Closure(temp, key) == [temp |-> temp, idMaps |-> idMaps, omit |-> key]

\* The debounced cascading effect, run after a render in which isOpen,
\* tempFilters or activeOpenKey changed: the previous run's timer is
\* cleared; closed, the overrides are emptied; open, a new timer is set.
\* ov: the overrides the handler itself has set.
cascadingEffect(open, temp, key, ov) ==
  /\ timers' = clearTimeout(timers, timeout)
                 \cup (IF open THEN {Closure(temp, key)} ELSE {})
  /\ timeout' = IF open THEN {Closure(temp, key)} ELSE {}
  /\ cascadeOverrides' = IF open THEN ov ELSE NoOverrides

\* A user event: no request in flight is the current burst's any more.
Unmark(reqs) == [i \in 1..Len(reqs) |-> [reqs[i] EXCEPT !.ofBurst = FALSE]]

\* A user event other than a change ends the burst the monitor follows.
EndBurst == burst' = <<>> /\ burstFires' = 0 /\ inflight' = Unmark(inflight)

\* A mutant of handleFilterChange: the parent drops the change.
handleFilterChange_Drop(f, key, values) == f

\* useCascadingFilters.handleFilterChange: setFilters(prev => ({...prev, [key]: values}))
handleFilterChange(f, key, values) == [f EXCEPT ![key] = values]

\* Collapsible onOpenChange={setIsOpen}: the header toggles the panel.
onOpenChange(v) ==
  /\ v # isOpen
  /\ isOpen' = v
  /\ cascadingEffect(v, tempFilters, activeOpenKey, cascadeOverrides)
  /\ lastOp' = Op(IF v THEN "open" ELSE "toggleClose", FALSE, FALSE)
  /\ calls' = <<>> /\ sent' = {}
  /\ EndBurst
  /\ UNCHANGED << otp, hook, pure, variant, filters, tempFilters, activeOpenKey, lastChangedKeyRef,
                  idMaps, seed, monitor >>

\* A mutant of tempChangeCalls: the change is reported to the parent at once.
tempChangeCalls_Notify(key, values) == << <<key, values>> >>

\* The onFilterChange calls handleTempFilterChange makes: none.
tempChangeCalls(key, values) == <<>>

\* handleTempFilterChange(key, values), wired to FilterContent's onFilterChange.
handleTempFilterChange(key, values) ==
  /\ isOpen
  /\ monitor /\ burstFires = 0 => Len(burst) < MaxBurst
  /\ lastChangedKeyRef' = key
  /\ tempFilters' = [tempFilters EXCEPT ![key] = values]
  /\ cascadingEffect(TRUE, tempFilters', activeOpenKey, cascadeOverrides)
  /\ lastOp' = Op("change", FALSE, FALSE)
  /\ calls' = tempChangeCalls(key, values) /\ sent' = {}
  /\ burst' = IF ~monitor THEN <<>>
              ELSE IF burstFires > 0 THEN <<key>> ELSE Append(burst, key)
  /\ burstFires' = 0
  /\ inflight' = Unmark(inflight)
  /\ UNCHANGED << otp, hook, pure, variant, filters, isOpen, activeOpenKey, idMaps, seed, monitor >>

\* onDropdownOpenChange={(key, open) => setActiveOpenKey(open ? key : null)}
\* (the current FilterBar only).
setActiveOpenKey(key, open) ==
  /\ isOpen
  /\ variant = Current
  /\ activeOpenKey' = IF open THEN key ELSE Null
  /\ activeOpenKey' # activeOpenKey
  /\ cascadingEffect(TRUE, tempFilters, activeOpenKey', cascadeOverrides)
  /\ lastOp' = Op("setOpenKey", FALSE, FALSE)
  /\ calls' = <<>> /\ sent' = {}
  /\ EndBurst
  /\ UNCHANGED << otp, hook, pure, variant, filters, tempFilters, isOpen, lastChangedKeyRef,
                  idMaps, seed, monitor >>

\* A mutant of ValueChanged: the lists are compared as they are, unsorted.
ValueChanged_Unsorted(currentValue, newValue) == currentValue # newValue

\* JSON.stringify(currentValue.sort()) !== JSON.stringify(newValue.sort())
ValueChanged(currentValue, newValue) ==
  SortNames(currentValue) # SortNames(newValue)

\* The keys handleApplyFilters reports, in the order of Object.keys(tempFilters).
ChangedKeys(cur, tmp) ==
  SelectSeq(KeyOrder, LAMBDA k : ValueChanged(cur[k], tmp[k]))

\* A mutant of appliedValue: the list is reported in the order of the clicks.
appliedValue_ClickOrder(newValue) == newValue

\* onFilterChange(key, newValue): newValue has been sorted in place by the
\* comparison before it.
appliedValue(newValue) == SortNames(newValue)

\* handleApplyFilters (Done).  Both arrays of every key are sorted in place;
\* each changed key is reported with its (sorted) temporary list, which the
\* parent stores; the temp-sync effect then copies the new filters.
handleApplyFilters ==
  /\ isOpen
  /\ LET changed == ChangedKeys(filters, tempFilters)
         report(k) == <<k, appliedValue(tempFilters[k])>>
     IN  /\ calls' = [i \in 1..Len(changed) |-> report(changed[i])]
         /\ filters' = [k \in Keys |->
                          IF k \in Range(changed)
                          THEN handleFilterChange(filters, k, appliedValue(tempFilters[k]))[k]
                          ELSE SortNames(filters[k])]
         /\ tempFilters' = IF changed # <<>>
                           THEN filters'
                           ELSE [k \in Keys |-> SortNames(tempFilters[k])]
  /\ isOpen' = FALSE
  /\ cascadingEffect(FALSE, tempFilters', activeOpenKey, cascadeOverrides)
  /\ lastOp' = Op("apply", FALSE, FALSE)
  /\ sent' = {}
  /\ EndBurst
  /\ UNCHANGED << otp, hook, pure, variant, activeOpenKey, lastChangedKeyRef, idMaps, seed, monitor >>

\* A mutant of cancelledTemp: the edits are kept.
cancelledTemp_Keep(applied, temp) == temp

\* handleCancel: setTempFilters(filters).
cancelledTemp(applied, temp) == applied

\* handleCancel: setTempFilters(filters); setIsOpen(false).
handleCancel ==
  /\ isOpen
  /\ tempFilters' = cancelledTemp(filters, tempFilters)
  /\ isOpen' = FALSE
  /\ cascadingEffect(FALSE, tempFilters', activeOpenKey, cascadeOverrides)
  /\ lastOp' = Op("cancel", FALSE, FALSE)
  /\ calls' = <<>> /\ sent' = {}
  /\ EndBurst
  /\ UNCHANGED << otp, hook, pure, variant, filters, activeOpenKey, lastChangedKeyRef, idMaps,
                  seed, monitor >>

\* clearAllFilters.  Both variants empty tempFilters and report every key of
\* filters as []; the current variant also resets activeOpenKey, the
\* overrides and lastChangedKeyRef and closes the panel.
clearAllFilters ==
  /\ tempFilters' = EmptyFilters
  /\ calls' = [i \in 1..Len(KeyOrder) |-> <<KeyOrder[i], <<>> >>]
  /\ filters' = [k \in Keys |-> handleFilterChange(filters, k, <<>>)[k]]
  /\ IF variant = Current
     THEN /\ activeOpenKey' = Null
          /\ lastChangedKeyRef' = Null
          /\ isOpen' = FALSE
          /\ cascadingEffect(FALSE, tempFilters', Null, NoOverrides)
     ELSE /\ UNCHANGED << activeOpenKey, lastChangedKeyRef, isOpen >>
          /\ cascadingEffect(isOpen, tempFilters', activeOpenKey, cascadeOverrides)
  /\ lastOp' = Op("clearAll", FALSE, FALSE)
  /\ sent' = {}
  /\ EndBurst
  /\ UNCHANGED << otp, hook, pure, variant, idMaps, seed, monitor >>

\* The debounce timer expires: the callback builds the parameters from its
\* closure and sends the cascading request.  The requests already in flight
\* are stale from now on.
timerFires(t) ==
  /\ t \in timers
  /\ Len(inflight) < MaxInFlight
  /\ timers' = timers \ {t}
  /\ timeout' = timeout \ {t}
  /\ sent' = {[params |-> buildSelectedIds(variant, t.temp, t.idMaps, t.omit),
               closure |-> t]}
  /\ inflight' = Append([i \in 1..Len(inflight) |-> [inflight[i] EXCEPT !.stale = TRUE]],
                        [stale |-> FALSE,
                         ofBurst |-> monitor /\ burst # <<>> /\ burstFires = 0])
  /\ lastOp' = Op("fire", FALSE, FALSE)
  /\ calls' = <<>>
  /\ burstFires' = IF monitor /\ burst # <<>> THEN burstFires + 1 ELSE 0
  /\ UNCHANGED << otp, hook, pure, variant, filters, tempFilters, isOpen, activeOpenKey,
                  lastChangedKeyRef, idMaps, cascadeOverrides, seed, monitor,
                  burst >>

Remove(reqs, i) == SubSeq(reqs, 1, i - 1) \o SubSeq(reqs, i + 1, Len(reqs))

\* A mutant of catchOverrides: a failed request leaves the overrides alone.
catchOverrides_Keep(ov) == ov

\* catch (e) { setCascadeOverrides({}) }
catchOverrides(ov) == NoOverrides

\* setCascadeOverrides(overrides) with all seven lists of the response;
\* whether the request is stale is not looked at.
appliedOverrides(ov, res, stale) == OverridesOf(res)

\* The promise of the i-th request in flight resolves: the ID maps are
\* merged and the overrides are replaced.  Neither isOpen nor the requests
\* sent since are looked at.
responseArrives(i, res) ==
  /\ i \in 1..Len(inflight)
  /\ inflight' = Remove(inflight, i)
  /\ idMaps' = MergeResponse(variant, idMaps, res)
  /\ cascadeOverrides' = appliedOverrides(cascadeOverrides, res, inflight[i].stale)
  /\ lastOp' = Op("response", inflight[i].stale, inflight[i].ofBurst)
  /\ calls' = <<>> /\ sent' = {}
  /\ UNCHANGED << otp, hook, pure, variant, filters, tempFilters, isOpen, activeOpenKey,
                  lastChangedKeyRef, timers, timeout, seed, monitor, burst,
                  burstFires >>

\* The promise of the i-th request in flight rejects (the network failed,
\* or !response.ok).
requestFails(i) ==
  /\ i \in 1..Len(inflight)
  /\ inflight' = Remove(inflight, i)
  /\ cascadeOverrides' = catchOverrides(cascadeOverrides)
  /\ lastOp' = Op("failure", inflight[i].stale, inflight[i].ofBurst)
  /\ calls' = <<>> /\ sent' = {}
  /\ UNCHANGED << otp, hook, pure, variant, filters, tempFilters, isOpen, activeOpenKey,
                  lastChangedKeyRef, idMaps, timers, timeout, seed, monitor,
                  burst, burstFires >>

\* The seed request of the mount effect resolves: setIdMaps replaces the maps.
seedArrives ==
  /\ seed = "pending"
  /\ seed' = "done"
  /\ idMaps' = SeedMaps(variant, SeedResponse)
  /\ lastOp' = Op("seed", FALSE, FALSE)
  /\ calls' = <<>> /\ sent' = {}
  /\ UNCHANGED << otp, hook, pure, variant, filters, tempFilters, isOpen, activeOpenKey,
                  lastChangedKeyRef, cascadeOverrides, timers, timeout, inflight,
                  monitor, burst, burstFires >>

\* The seed request rejects: console.error, nothing else.
seedFails ==
  /\ seed = "pending"
  /\ seed' = "done"
  /\ lastOp' = Op("seedFailure", FALSE, FALSE)
  /\ calls' = <<>> /\ sent' = {}
  /\ UNCHANGED << otp, hook, pure, variant, filters, tempFilters, isOpen, activeOpenKey,
                  lastChangedKeyRef, idMaps, cascadeOverrides, timers, timeout,
                  inflight, monitor, burst, burstFires >>

OpenPanel == onOpenChange(TRUE)

TogglePanelClosed == onOpenChange(FALSE)

ChangeFilter == \E k \in EditKeys : \E vs \in Selections(k) : handleTempFilterChange(k, vs)

SetOpenCategory == \E k \in EditKeys, o \in BOOLEAN : setActiveOpenKey(k, o)

TimerFires == \E t \in timers : timerFires(t)

ResponseArrives ==
  \E i \in 1..Len(inflight), res \in CascadeResponses : responseArrives(i, res)

RequestFails == \E i \in 1..Len(inflight) : requestFails(i)

Init == InitPanel(Current, FALSE) /\ pure = NoPure /\ hook = NoHook /\ otp = NoOtp

Next ==
  \/ OpenPanel
  \/ TogglePanelClosed
  \/ ChangeFilter
  \/ SetOpenCategory
  \/ handleApplyFilters
  \/ handleCancel
  \/ clearAllFilters
  \/ TimerFires
  \/ ResponseArrives
  \/ RequestFails
  \/ seedArrives
  \/ seedFails

\* The current FilterBar (and MobileFilterBar) under every user event.
Spec == Init /\ [][Next]_vars

(***************************************************************************)
(* The older FilterBar: no activeOpenKey, raw names as map keys,           *)
(* pickFirstId, and a clearAllFilters that only empties the filters.       *)
(***************************************************************************)
InitOlder == InitPanel(Older, FALSE) /\ pure = NoPure /\ hook = NoHook /\ otp = NoOtp

NextOlder ==
  \/ OpenPanel
  \/ TogglePanelClosed
  \/ ChangeFilter
  \/ handleApplyFilters
  \/ handleCancel
  \/ clearAllFilters
  \/ TimerFires
  \/ ResponseArrives
  \/ RequestFails
  \/ seedArrives
  \/ seedFails

SpecOlder == InitOlder /\ [][NextOlder]_vars

(***************************************************************************)
(* Bursts of changes on an open panel of the current FilterBar: the panel  *)
(* is opened and then only changed, while timers expire and requests       *)
(* settle.                                                                 *)
(***************************************************************************)
InitDebounce == InitPanel(Current, TRUE) /\ pure = NoPure /\ hook = NoHook /\ otp = NoOtp

NextDebounce ==
  \/ OpenPanel
  \/ ChangeFilter
  \/ TimerFires
  \/ ResponseArrives
  \/ RequestFails
  \/ seedArrives

SpecDebounce == InitDebounce /\ [][NextDebounce]_vars

(***************************************************************************)
(* The parameter builders as functions: toId of useCascadingFilters,       *)
(* pickFirstId of the older FilterBar and buildSelectedIds of the current  *)
(* FilterBar and MobileFilterBar, applied to selections and responses.     *)
(***************************************************************************)
\* Names selected in one dropdown.
MaxSel == 3

\* " a" and "A" are one name once normalized.
n3 == <<" ", "a">>

PureNames == {n1, n2, n3}

\* Selections of at most MaxSel names, no name twice.
PureSelections ==
  {s \in UNION {[1..k -> PureNames] : k \in 0..MaxSel} :
     \A i, j \in DOMAIN s : s[i] = s[j] => i = j}

\* The list of a response the ID maps are built from.
PureItemLists ==
  { <<>>,
    <<Item(1, n1)>>,
    <<Item(1, n1), Item(2, n2)>>,
    <<Item(1, n1), Item(2, n2), Item(3, n3)>> }

panelVars ==
  << variant, filters, tempFilters, isOpen, activeOpenKey, lastChangedKeyRef,
     idMaps, cascadeOverrides, timers, timeout, inflight, seed, lastOp, calls,
     sent, monitor, burst, burstFires >>

\* The temporary filters of the inputs: names in Branch, other in Dealer.
PureTemp == [EmptyFilters EXCEPT !["branch"] = pure.names, !["dealer"] = pure.other]

InitParams ==
  /\ InitPanel(Current, FALSE)
  /\ pure \in [fn : {"input"}, names : PureSelections, other : {<<>>, <<n2>>},
               items : PureItemLists,
               omit : {Null, "branch", "dealer", "lender"},
               out : {<<>>}]
  /\ hook = NoHook /\ otp = NoOtp

\* The hook: toId(nameToId.branches, filters.branch), the map keyed by raw names.
ApplyToId ==
  /\ pure.fn = "input"
  /\ pure' = [pure EXCEPT !.fn = "toId",
                          !.out = toId(mergeIdMaps(Older, pure.items), pure.names)]
  /\ UNCHANGED << panelVars, hook, otp >>

\* The older FilterBar: pickFirstId(idMaps.branches, tempFilters.branch).
ApplyPickFirstId ==
  /\ pure.fn = "input"
  /\ pure' = [pure EXCEPT !.fn = "pickFirstId",
                          !.out = pickFirstId(mergeIdMaps(Older, pure.items), pure.names)]
  /\ UNCHANGED << panelVars, hook, otp >>

\* The current FilterBar and MobileFilterBar: buildSelectedIds(omitKey), the
\* maps keyed by normalized names.
ApplyBuildSelectedIds ==
  /\ pure.fn = "input"
  /\ pure' = [pure EXCEPT !.fn = "buildSelectedIds",
                          !.out = buildSelectedIds(Current, PureTemp,
                                     SeedMaps(Current, Uniform(pure.items)), pure.omit)]
  /\ UNCHANGED << panelVars, hook, otp >>

NextParams ==
  \/ ApplyToId
  \/ ApplyPickFirstId
  \/ ApplyBuildSelectedIds

SpecParams == InitParams /\ [][NextParams]_vars

(***************************************************************************)
(* Properties.                                                             *)
(***************************************************************************)
\* The IDs of the names of a selection that have an entry in map m, looked
\* up normalized or as they are, in the order of the selection.
IdsOfKnown(m, names, normalized) ==
  LET key(n) == IF normalized THEN normalize(n) ELSE n
      known == SelectSeq(names, LAMBDA n : key(n) \in DOMAIN m)
  IN  [i \in 1..Len(known) |-> m[key(known[i])]]

\* The ID of the first name of a selection, nothing if it has no entry.
IdOfFirst(m, names, normalized) ==
  IF names = <<>> THEN <<>> ELSE IdsOfKnown(m, <<names[1]>>, normalized)

PureRawMap == mergeIdMaps(Older, pure.items)

PureNormalizedMap == mergeIdMaps(Current, pure.items)

C2_OpenCategoryOmitted ==
  \A r \in sent :
    activeOpenKey \in CascadeKeys =>
      /\ r.params[ParamOfKey(activeOpenKey)] = <<>>
      /\ \A p \in ParamNames \ {ParamOfKey(activeOpenKey)} :
           r.params[p] = IdsOfKnown(r.closure.idMaps[ListOfParam(p)],
                                    tempFilters[KeyOfParam(p)], TRUE)

\* C2, witness: a request is sent while Branch is open, with names selected
\* in Branch that have IDs, and with a Team Lead parameter.
C2_Witness ==
  \E r \in sent :
    /\ activeOpenKey = "branch"
    /\ IdsOfKnown(r.closure.idMaps["branches"], tempFilters["branch"], TRUE) # <<>>
    /\ r.params["tl_id"] # <<>>

\* The burst the monitor follows is A, B, A.
BurstABA ==
  /\ Len(burst) = 3
  /\ burst[1] = burst[3]
  /\ burst[1] # burst[2]

\* C3: after changes of A, B and A again with no timer expiring in between,
\* one timer is pending or has expired, never two: one resolve, one request.
\* The pending timer holds the temporary selection after the third change,
\* the request sent is built from it, and lastChangedKeyRef is A when the
\* response of that request is applied.
C3_DebounceCollapse ==
  BurstABA =>
    /\ Cardinality(timers) + burstFires = 1
    /\ \A t \in timers : t.temp = tempFilters /\ t.omit = activeOpenKey
    /\ \A r \in sent :
         r.params = [p \in ParamNames |->
                       IdsOfKnown(r.closure.idMaps[ListOfParam(p)],
                                  tempFilters[KeyOfParam(p)], TRUE)]
    /\ \A i \in 1..Len(inflight) : inflight[i].ofBurst => ~inflight[i].stale
    /\ lastOp.op = "response" /\ lastOp.ofBurst => lastChangedKeyRef = burst[3]

\* C3, witness: the response of the one request of an A, B, A burst has
\* been applied.
C3_Witness ==
  /\ BurstABA
  /\ lastOp.op = "response"
  /\ lastOp.ofBurst
  /\ burstFires = 1
  /\ tempFilters["branch"] # <<>>

\* C4 (as claimed): the response of a request that a newer request has
\* followed changes neither the overrides nor the ID maps.
C4_StaleResponseDiscarded ==
  [][lastOp'.op = "response" /\ lastOp'.stale =>
       cascadeOverrides' = cascadeOverrides /\ idMaps' = idMaps]_vars

\* C5 (as the code has it): when a cascading request fails the overrides
\* become empty, so the dropdowns fall back to the base lists; the ID maps,
\* the applied and the temporary filters and the panel stay as they were and
\* nothing is reported to the parent.
C5_FailureEmptiesOverrides ==
  [][lastOp'.op = "failure" =>
       /\ cascadeOverrides' = NoOverrides
       /\ idMaps' = idMaps
       /\ filters' = filters /\ tempFilters' = tempFilters
       /\ isOpen' = isOpen /\ calls' = <<>>]_vars

\* C5, witness: a request has failed while overrides were present.
C5_Witness == lastOp.op = "failure" /\ lastOp.hadOv

\* C5 (as claimed): when a cascading request fails the overrides keep the
\* value they had and the ID maps are unchanged.
C5_FailureKeepsOverrides ==
  [][lastOp'.op = "failure" =>
       cascadeOverrides' = cascadeOverrides /\ idMaps' = idMaps]_vars

\* C6: after cancel the temporary filters equal the applied filters in every
\* category, the panel is closed and the overrides are empty.
C6_CancelRestores ==
  lastOp.op = "cancel" =>
    /\ \A k \in Keys : tempFilters[k] = filters[k]
    /\ ~isOpen
    /\ cascadeOverrides = NoOverrides

\* C6, witness: cancel has run on a panel whose temporary filters differed
\* from the applied ones and which showed overrides.
C6_Witness == lastOp.op = "cancel" /\ lastOp.dirty /\ lastOp.hadOv

\* C7 (as claimed): after clearAll the applied and the temporary filters are
\* empty in every category, lastChangedKeyRef and the open dropdown are null
\* and the overrides are empty.
C7_ClearAllResetsEverything ==
  lastOp.op = "clearAll" =>
    /\ filters = EmptyFilters
    /\ tempFilters = EmptyFilters
    /\ lastChangedKeyRef = Null
    /\ activeOpenKey = Null
    /\ cascadeOverrides = NoOverrides

\* How often onFilterChange was called for key k.
CallsFor(cs, k) == Cardinality({i \in 1..Len(cs) : cs[i][1] = k})

\* C8: apply calls onFilterChange once for every key whose temporary and
\* applied lists differ as sets, with the temporary list, and not at all
\* for any other key.
C8_ApplyDiffMinimal ==
  [][lastOp'.op = "apply" =>
       \A k \in Keys :
         IF Range(tempFilters[k]) # Range(filters[k])
         THEN /\ CallsFor(calls', k) = 1
              /\ \A i \in 1..Len(calls') :
                   calls'[i][1] = k => Range(calls'[i][2]) = Range(tempFilters[k])
         ELSE CallsFor(calls', k) = 0]_vars

\* C8, witness: apply has reported Team Lead alone and left alone Branch,
\* whose applied list holds two names.
C8_Witness ==
  /\ lastOp.op = "apply"
  /\ Len(calls) = 1
  /\ calls[1][1] = "teamLead"
  /\ Len(filters["branch"]) = 2

\* C9: after apply the applied list of every category holds the names the
\* temporary list held when Done was pressed, and the panel is closed.
C9_ApplyCommits ==
  [][lastOp'.op = "apply" =>
       /\ \A c \in Keys : Range(filters'[c]) = Range(tempFilters[c])
       /\ ~isOpen']_vars

\* C9, witness: apply has committed a change.
C9_Witness ==
  /\ lastOp.op = "apply"
  /\ calls # <<>>
  /\ filters["branch"] # <<>>
  /\ ~isOpen

\* C10: a step other than apply and clearAll calls onFilterChange not at all
\* and leaves the applied filters as they were.
C10_LivePreviewNeverCommits ==
  [][lastOp'.op \notin {"apply", "clearAll"} =>
       calls' = <<>> /\ filters' = filters]_vars

\* C10, witness: a response has been applied to a panel whose temporary
\* filters differ from the applied ones.
C10_Witness ==
  /\ lastOp.op = "response"
  /\ cascadeOverrides # NoOverrides
  /\ tempFilters # filters
  /\ filters["branch"] # <<>>

\* C11 (as claimed): when the panel has just gone from closed to open, the
\* temporary filters equal the applied filters in every category and the
\* overrides are empty.
C11_OpeningResetsBuffer ==
  lastOp.op = "open" =>
    /\ \A k \in Keys : tempFilters[k] = filters[k]
    /\ cascadeOverrides = NoOverrides

\* C12: when apply or cancel closes the panel no debounce timer is left
\* pending, so no request is sent and nothing is updated on behalf of the
\* timer that was pending; a closed panel never has a pending timer.
C12_CloseSuppressesPendingResolve ==
  /\ lastOp.op \in {"apply", "cancel"} => timers = {} /\ sent = {}
  /\ ~isOpen => timers = {} /\ lastOp.op # "fire"

\* C12, witness: cancel has closed a panel that had a timer pending.
C12_Witness == lastOp.op = "cancel" /\ lastOp.hadTimer /\ lastOp.dirty

\* C13 (as claimed): while the panel is closed the overrides are empty.
C13_OverridesOnlyWhileOpen == ~isOpen => cascadeOverrides = NoOverrides

\* C18 (as the code has it): a change of the open dropdown sends no request
\* in that step, but it clears the pending debounce timer and sets a new
\* one for the unchanged temporary filters, whose request will omit the
\* newly open dropdown; nothing else of the panel changes.
C18_OpenCategoryReschedulesResolve ==
  [][lastOp'.op = "setOpenKey" =>
       /\ sent' = {}
       /\ timers' = {[temp |-> tempFilters, idMaps |-> idMaps, omit |-> activeOpenKey']}
       /\ tempFilters' = tempFilters /\ filters' = filters
       /\ cascadeOverrides' = cascadeOverrides /\ idMaps' = idMaps]_vars

\* C18, witness: the request of the timer set when Branch was opened is
\* sent, with no change of the temporary filters since the panel opened.
C18_Witness ==
  /\ lastOp.op = "fire"
  /\ activeOpenKey = "branch"
  /\ lastChangedKeyRef = Null
  /\ sent # {}

\* C18 (as claimed): a change of the open dropdown sets no debounce timer.
C18_OpenCategorySchedulesNothing ==
  [][lastOp'.op = "setOpenKey" => timers' \subseteq timers]_vars

(***************************************************************************)
(* useCascadingFilters: the applied filters, the raw name -> ID maps, the  *)
(* option lists, the response cache and the pending calls.                 *)
(***************************************************************************)
\* Entries the response cache holds at one time.
MaxCached == 1

\* The cascading option lists of availableOptions.
OptionLists ==
  {"branches", "teamLeads", "rms", "sourceTeamLeads", "sourceRms", "dealers",
   "lenders"}

\* The list of a response an option list is filled from.
ListOfOption(o) ==
  CASE o = "branches"        -> "branches"
    [] o = "teamLeads"       -> "team_leads"
    [] o = "rms"             -> "rms"
    [] o = "sourceTeamLeads" -> "source_team_leads"
    [] o = "sourceRms"       -> "source_rms"
    [] o = "dealers"         -> "dealers"
    [] o = "lenders"         -> "lenders"

\* A mutant of CASCADE_DEPENDENCIES: a category's own list is impacted too.
CASCADE_DEPENDENCIES_WithOwn(k) ==
  CASE k = "branch"         -> OptionLists
    [] k = "teamLead"       -> {"teamLeads", "rms", "dealers", "lenders"}
    [] k = "rm"             -> {"rms", "dealers", "lenders"}
    [] k = "sourceTeamLead" -> {"sourceTeamLeads", "sourceRms", "dealers", "lenders"}
    [] k = "sourceRm"       -> {"sourceRms", "dealers", "lenders"}
    [] k = "dealer"         -> OptionLists
    [] k = "lender"         -> OptionLists
    [] OTHER                -> {}

\* CASCADE_DEPENDENCIES[lastKey] || []
CASCADE_DEPENDENCIES(k) ==
  CASE k = "branch"         -> {"teamLeads", "rms", "sourceTeamLeads", "sourceRms",
                                "dealers", "lenders"}
    [] k = "teamLead"       -> {"rms", "dealers", "lenders"}
    [] k = "rm"             -> {"dealers", "lenders"}
    [] k = "sourceTeamLead" -> {"sourceRms", "dealers", "lenders"}
    [] k = "sourceRm"       -> {"dealers", "lenders"}
    [] k = "dealer"         -> {"branches", "teamLeads", "rms", "sourceTeamLeads",
                                "sourceRms", "lenders"}
    [] k = "lender"         -> {"branches", "teamLeads", "rms", "sourceTeamLeads",
                                "sourceRms", "dealers"}
    [] OTHER                -> {}

\* setAvailableOptions(prev => ...): with a last changed key the impacted
\* lists are replaced, without one all seven.
impactedOptions(prev, res, lastKey) ==
  [o \in OptionLists |->
     IF lastKey = Null \/ o \in CASCADE_DEPENDENCIES(lastKey)
     THEN toNames(res[ListOfOption(o)])
     ELSE prev[o]]

\* The seed effect: every cascading list is set from the response.
seededOptions(prev, res) == [o \in OptionLists |-> toNames(res[ListOfOption(o)])]

\* The params object of the hook: toId for each of the seven parameters.
hookParams(f, maps) ==
  [p \in ParamNames |-> toId(maps[ListOfParam(p)], f[KeyOfParam(p)])]

\* The fields of a params object that are neither undefined nor null.
Defined(params) == {p \in ParamNames : params[p] # <<>>}

\* `cascading-${JSON.stringify(params)}`: undefined fields are left out.
cacheKey(params) == {<<p, params[p][1]>> : p \in Defined(params)}

\* A mutant of QueryOf: an undefined field is sent as the text "undefined".
QueryOf_KeepUndefined(params) ==
  {<<p, IF params[p] = <<>> THEN "undefined" ELSE params[p][1]>> : p \in ParamNames}

\* FiltersService.getCascadingOptions: the query string holds the entries
\* whose value is neither undefined nor null.
QueryOf(params) == {<<p, params[p][1]>> : p \in Defined(params)}

\* hasFilters of the timer callback.
hasFilters(f) == \E k \in CascadeKeys : Len(f[k]) > 0

\* An empty Map / an empty cache.
NoEntries == [k \in {} |-> 0]

\* cascadingCache.getCachedData(cacheKey): the entry, if it has not expired.
getCachedData(cache, key) == IF key \in DOMAIN cache THEN {cache[key]} ELSE {}

\* cascadingCache.setCachedData(cacheKey, res, 2 * 60 * 1000)
setCachedData(cache, key, res) ==
  [k \in DOMAIN cache \cup {key} |-> IF k = key THEN res ELSE cache[k]]

\* pendingCallsRef.current.set(cacheKey, apiCall)
MapSet(m, key, v) == [k \in DOMAIN m \cup {key} |-> IF k = key THEN v ELSE m[k]]

\* A function without the entry of key.
Without(f, key) == [k \in DOMAIN f \ {key} |-> f[k]]

\* A mutant of servedFromCache: the cached response is never used.
servedFromCache_Never(cached) == FALSE

\* if (cached) { ... return; }
servedFromCache(cached) == cached # {}

\* A mutant of joinsPending: the pending call is never found.
joinsPending_Never(pending, key) == FALSE

\* let apiCall = pendingCallsRef.current.get(cacheKey); if (!apiCall) ...
joinsPending(pending, key) == key \in DOMAIN pending

\* The closure of the hook's setTimeout callback.
HookClosure(f, maps) == [filters |-> f, nameToId |-> maps]

\* Besides the state and the refs of the hook, causes holds
\* lastChangedKeyRef.current as it was when each outstanding call was made.
\* What is recorded of a step of the hook: the operation, how a timer
\* callback got its response, the cache key and the response applied.
HookOp(name, how, key, res) == [op |-> name, how |-> how, key |-> key, applied |-> res]

InitHookState ==
  [on |-> TRUE,
   filters |-> EmptyFilters,
   lastChangedKeyRef |-> Null,
   nameToId |-> EmptyIdMaps,
   availableOptions |-> [o \in OptionLists |-> <<>>],
   timer |-> {HookClosure(EmptyFilters, EmptyIdMaps)},
   pendingCalls |-> NoEntries,
   cache |-> NoEntries,
   causes |-> NoEntries,
   initialLoadRef |-> FALSE,
   seed |-> "pending",
   net |-> {},
   lastOp |-> HookOp("mount", "none", {}, {})]

\* Calls of getCascadingOptions that have failed in one session.
MaxFailed == 1

\* The applied filters that change.
HookEditKeys == {"branch", "dealer"}

\* The selections tried in the applied filters: none or two names in
\* Branch, none or one name in Dealer.
HookSelections(k) == IF k = "branch" THEN {<<>>, <<n2, n1>>} ELSE {<<>>, <<n1>>}

\* The calls of getCascadingOptions that are outstanding, by cache key.
Outstanding(pending) == {k \in DOMAIN pending : pending[k] = "outstanding"}

Rejected(pending) == {k \in DOMAIN pending : pending[k] = "rejected"}

\* The cascading effect of the hook runs again when one of the cascading
\* filter arrays or nameToId is a new object: the pending timer is cleared
\* and a new one is set.
hookEffect(f, maps) == {HookClosure(f, maps)}

\* handleFilterChange(key, values) of the hook.
hookHandleFilterChange(key, values) ==
  /\ hook.on
  /\ LET f == handleFilterChange(hook.filters, key, values)
     IN  hook' = [hook EXCEPT
                    !.lastChangedKeyRef = key,
                    !.filters = f,
                    !.timer = IF key \in CascadeKeys
                              THEN hookEffect(f, hook.nameToId) ELSE @,
                    !.net = {},
                    !.lastOp = HookOp("change", "none", {}, {})]
  /\ UNCHANGED << panelVars, pure, otp >>

\* clearAllFilters of the hook: setFilters of empty arrays; the ref is kept.
hookClearAllFilters ==
  /\ hook.on
  /\ hook' = [hook EXCEPT
                !.filters = EmptyFilters,
                !.timer = hookEffect(EmptyFilters, hook.nameToId),
                !.net = {},
                !.lastOp = HookOp("clearAll", "none", {}, {})]
  /\ UNCHANGED << panelVars, pure, otp >>

\* A response is applied: setNameToId merges it, setAvailableOptions
\* replaces the lists impacted by lastChangedKeyRef.current, and the effect
\* runs again because nameToId is a new object.
hookApplied(h, res) ==
  LET maps == MergeResponse(Older, h.nameToId, res)
  IN  [h EXCEPT
         !.nameToId = maps,
         !.availableOptions = impactedOptions(@, res, h.lastChangedKeyRef),
         !.timer = hookEffect(h.filters, maps)]

\* The 150 ms timer of the hook expires.
hookTimerFires(c) ==
  /\ hook.on
  /\ c \in hook.timer
  /\ LET params == hookParams(c.filters, c.nameToId)
         key == cacheKey(params)
         cached == getCachedData(hook.cache, key)
         fired == [hook EXCEPT !.timer = {}, !.net = {}]
     IN  IF ~hasFilters(c.filters) /\ hook.initialLoadRef
         THEN hook' = [fired EXCEPT !.lastOp = HookOp("fire", "skipped", {}, {})]
         ELSE IF servedFromCache(cached)
         THEN \E res \in cached :
                hook' = [hookApplied(fired, res) EXCEPT
                           !.lastOp = HookOp("fire", "cached", key, {res})]
         ELSE IF joinsPending(hook.pendingCalls, key)
         THEN hook' = [fired EXCEPT !.lastOp = HookOp("fire", "joined", key, {})]
         ELSE /\ Cardinality(Outstanding(hook.pendingCalls) \cup {key}) <= MaxInFlight
              /\ Cardinality(DOMAIN hook.cache \cup Outstanding(hook.pendingCalls)
                               \cup {key}) <= MaxCached
              /\ hook' = [fired EXCEPT
                            !.net = {QueryOf(params)},
                            !.pendingCalls = MapSet(@, key, "outstanding"),
                            !.causes = MapSet(@, key, hook.lastChangedKeyRef),
                            !.lastOp = HookOp("fire", "network", key, {})]
  /\ UNCHANGED << panelVars, pure, otp >>

\* The promise of an outstanding call resolves: every callback awaiting it
\* deletes the pending entry, caches the response and applies it.
hookResponseArrives(key, res) ==
  /\ hook.on
  /\ key \in Outstanding(hook.pendingCalls)
  /\ LET settled == [hook EXCEPT
                       !.pendingCalls = Without(@, key),
                       !.causes = Without(@, key),
                       !.cache = setCachedData(@, key, res),
                       !.net = {}]
     IN  hook' = [hookApplied(settled, res) EXCEPT
                    !.lastOp = HookOp("response", "network", key, {res})]
  /\ UNCHANGED << panelVars, pure, otp >>

\* The promise of an outstanding call rejects: the callbacks awaiting it log
\* the error; pendingCallsRef.current.delete is not reached.
hookRequestFails(key) ==
  /\ hook.on
  /\ key \in Outstanding(hook.pendingCalls)
  /\ Cardinality(Rejected(hook.pendingCalls)) < MaxFailed
  /\ hook' = [hook EXCEPT
                !.pendingCalls = MapSet(@, key, "rejected"),
                !.causes = Without(@, key),
                !.net = {},
                !.lastOp = HookOp("failure", "network", key, {})]
  /\ UNCHANGED << panelVars, pure, otp >>

\* The seed request of the hook resolves: setNameToId replaces the maps and
\* the cascading option lists are set.
hookSeedArrives(res) ==
  /\ hook.on
  /\ hook.seed = "pending"
  /\ LET maps == SeedMaps(Older, res)
     IN  hook' = [hook EXCEPT
                    !.seed = "done",
                    !.nameToId = maps,
                    !.availableOptions = seededOptions(@, res),
                    !.timer = hookEffect(hook.filters, maps),
                    !.net = {},
                    !.lastOp = HookOp("seed", "none", {}, {res})]
  /\ UNCHANGED << panelVars, pure, otp >>

\* The seed request of the hook rejects: catch {}.
hookSeedFails ==
  /\ hook.on
  /\ hook.seed = "pending"
  /\ hook' = [hook EXCEPT !.seed = "done", !.net = {},
                          !.lastOp = HookOp("seedFailure", "none", {}, {})]
  /\ UNCHANGED << panelVars, pure, otp >>

\* The two minutes of a cache entry are over: the entry is absent from now on.
cacheExpires(key) ==
  /\ hook.on
  /\ key \in DOMAIN hook.cache
  /\ hook' = [hook EXCEPT !.cache = Without(@, key), !.net = {},
                          !.lastOp = HookOp("expire", "none", key, {})]
  /\ UNCHANGED << panelVars, pure, otp >>

\* fetchFilterOptions has loaded the options: initialLoadRef.current = true.
fetchFilterOptions ==
  /\ hook.on
  /\ ~hook.initialLoadRef
  /\ hook' = [hook EXCEPT !.initialLoadRef = TRUE, !.net = {},
                          !.lastOp = HookOp("load", "none", {}, {})]
  /\ UNCHANGED << panelVars, pure, otp >>

HookChangeFilter ==
  \E k \in HookEditKeys : \E vs \in HookSelections(k) : hookHandleFilterChange(k, vs)

HookTimerFires == \E c \in hook.timer : hookTimerFires(c)

HookResponseArrives ==
  \E key \in DOMAIN hook.pendingCalls, res \in CascadeResponses :
    hookResponseArrives(key, res)

HookRequestFails == \E key \in DOMAIN hook.pendingCalls : hookRequestFails(key)

HookSeedArrives == \E res \in CascadeResponses : hookSeedArrives(res)

CacheExpires == \E key \in DOMAIN hook.cache : cacheExpires(key)

InitHook == InitPanel(Current, FALSE) /\ pure = NoPure /\ hook = InitHookState /\ otp = NoOtp

NextHook ==
  \/ HookChangeFilter
  \/ hookClearAllFilters
  \/ HookTimerFires
  \/ HookResponseArrives
  \/ HookRequestFails
  \/ HookSeedArrives
  \/ hookSeedFails
  \/ CacheExpires
  \/ fetchFilterOptions

\* useCascadingFilters under changes of the applied filters.
SpecHook == InitHook /\ [][NextHook]_vars

\* handleFilterChange('status', values): a filter outside the cascade.
HookChangeStatus == hookHandleFilterChange("status", <<n1>>)

NextHookStatus ==
  \/ NextHook
  \/ HookChangeStatus

\* useCascadingFilters under changes of the cascading filters and of Status.
SpecHookStatus == InitHook /\ [][NextHookStatus]_vars

(***************************************************************************)
(* Properties of useCascadingFilters.                                      *)
(***************************************************************************)
\* C14: when a timer callback of the hook builds parameters whose cache key
\* has an entry that has not expired, it calls getCascadingOptions not at
\* all and applies the cached response; the cache and the pending calls
\* stay as they are.
C14_CacheIdempotence ==
  [][/\ hook'.lastOp.op = "fire"
     /\ hook'.lastOp.how # "skipped"
     /\ hook'.lastOp.key \in DOMAIN hook.cache
     => /\ hook'.net = {}
        /\ hook'.lastOp.applied = {hook.cache[hook'.lastOp.key]}
        /\ hook'.nameToId = MergeResponse(Older, hook.nameToId,
                                          hook.cache[hook'.lastOp.key])
        /\ hook'.cache = hook.cache
        /\ hook'.pendingCalls = hook.pendingCalls]_vars

\* C14, witness: a resolve with a Branch or Dealer parameter has been served
\* from the cache.
C14_Witness ==
  /\ hook.lastOp.op = "fire"
  /\ hook.lastOp.how = "cached"
  /\ hook.lastOp.key # {}
  /\ hook.lastOp.key \in DOMAIN hook.cache

\* C15: when a timer callback of the hook builds parameters for whose cache
\* key a call is outstanding, it calls getCascadingOptions not at all and
\* waits for that call: the pending calls stay as they are.
C15_InFlightDeduplication ==
  [][/\ hook'.lastOp.op = "fire"
     /\ hook'.lastOp.how # "skipped"
     /\ hook'.lastOp.key \in Outstanding(hook.pendingCalls)
     => /\ hook'.net = {}
        /\ hook'.lastOp.how = "joined"
        /\ hook'.pendingCalls = hook.pendingCalls]_vars

\* C15, witness: a resolve has joined the outstanding call of its key.
C15_Witness ==
  /\ hook.lastOp.op = "fire"
  /\ hook.lastOp.how = "joined"
  /\ hook.lastOp.key \in Outstanding(hook.pendingCalls)
  /\ hasFilters(hook.filters)

\* C16 (as claimed): a name that has an entry in a name -> ID map of the
\* hook has an entry in it after every step.
C16_NameIdCacheMergeOnly ==
  [][\A l \in Lists : DOMAIN hook.nameToId[l] \subseteq DOMAIN hook'.nameToId[l]]_vars

\* The pairs of a query for parameter p.
FieldsOf(q, p) == {f \in q : f[1] = p}

\* C17: a resolve of the hook runs whenever a cascading filter is selected;
\* the request it sends has, for each category, the ID of the first
\* selected name as its only field when that name has an entry in the map,
\* and no field at all when it has none or nothing is selected.
C17_MissingIdOmitsParameter ==
  /\ hook.lastOp.op = "fire" /\ hasFilters(hook.filters) =>
       hook.lastOp.how # "skipped"
  /\ \A q \in hook.net : \A p \in ParamNames :
       LET names == hook.filters[KeyOfParam(p)]
           m == hook.nameToId[ListOfParam(p)]
       IN  IF names # <<>> /\ names[1] \in DOMAIN m
           THEN FieldsOf(q, p) = {<<p, m[names[1]]>>}
           ELSE FieldsOf(q, p) = {}

\* C17, witness: a request is sent with a Dealer parameter while the first
\* name selected in Branch has no entry in the map.
C17_Witness ==
  \E q \in hook.net :
    /\ hook.filters["branch"] # <<>>
    /\ hook.filters["branch"][1] \notin DOMAIN hook.nameToId["branches"]
    /\ hook.nameToId["branches"] # EmptyMap
    /\ <<"dealer_id", 1>> \in q

(***************************************************************************)
(* impactedOptions as a function: option lists, a response and a last      *)
(* changed key.                                                            *)
(***************************************************************************)
\* A response whose lists differ from one another.
MixedResponse ==
  [l \in Lists |-> IF l \in {"branches", "dealers"}
                   THEN <<Item(1, n1)>>
                   ELSE <<Item(2, n2), Item(3, n3)>>]

OptionResponses == {Uniform(<<Item(1, n1)>>), Uniform(<<Item(2, n2)>>), MixedResponse}

\* The option lists before the response is applied.
PrevOptions ==
  {[o \in OptionLists |-> <<>>], [o \in OptionLists |-> <<n1>>],
   [o \in OptionLists |-> <<n3, n1>>]}

InitOptions ==
  /\ InitPanel(Current, FALSE)
  /\ hook = NoHook /\ otp = NoOtp
  /\ pure \in [fn : {"input"}, prev : PrevOptions, res : OptionResponses,
               lastKey : CascadeKeys \cup {Null, "status"}, out : {<<>>}]

\* The hook applies a response while lastChangedKeyRef.current = lastKey.
ApplyImpactedOptions ==
  /\ pure.fn = "input"
  /\ pure' = [pure EXCEPT !.fn = "impactedOptions",
                          !.out = impactedOptions(pure.prev, pure.res, pure.lastKey)]
  /\ UNCHANGED << panelVars, hook, otp >>

NextOptions == ApplyImpactedOptions

SpecOptions == InitOptions /\ [][NextOptions]_vars

\* The option list of a category.
OptionOfKey(k) ==
  CASE k = "branch"         -> "branches"
    [] k = "teamLead"       -> "teamLeads"
    [] k = "rm"             -> "rms"
    [] k = "sourceTeamLead" -> "sourceTeamLeads"
    [] k = "sourceRm"       -> "sourceRms"
    [] k = "dealer"         -> "dealers"
    [] k = "lender"         -> "lenders"

\* The dependency table, by category.
DependentsOf(k) ==
  CASE k = "branch"         -> {"teamLead", "rm", "sourceTeamLead", "sourceRm", "dealer", "lender"}
    [] k = "teamLead"       -> {"rm", "dealer", "lender"}
    [] k = "rm"             -> {"dealer", "lender"}
    [] k = "sourceTeamLead" -> {"sourceRm", "dealer", "lender"}
    [] k = "sourceRm"       -> {"dealer", "lender"}
    [] k = "dealer"         -> CascadeKeys \ {"dealer"}
    [] k = "lender"         -> CascadeKeys \ {"lender"}

TwiceItemLists ==
  { <<>>,
    <<Item(1, n1)>>,
    <<Item(4, n1)>>,
    <<Item(1, n1), Item(2, n2)>> }

\* The selection of both resolves: names in Branch, one name in Dealer.
TwiceTemp == [EmptyFilters EXCEPT !["branch"] = pure.names, !["dealer"] = <<n1>>]

\* The parameters a builder makes of the selection with the maps built
\* from items: the hook's params, or buildSelectedIds of the panel.
TwiceParams(who, items) ==
  IF who = "hook"
  THEN hookParams(TwiceTemp, SeedMaps(Older, Uniform(items)))
  ELSE buildSelectedIds(Current, TwiceTemp, SeedMaps(Current, Uniform(items)),
                        pure.omit)

InitTwice ==
  /\ InitPanel(Current, FALSE)
  /\ hook = NoHook /\ otp = NoOtp
  /\ pure \in [fn : {"input"}, who : {"hook", "panel"}, names : PureSelections,
               omit : {Null, "branch"},
               items1 : TwiceItemLists, items2 : TwiceItemLists,
               out1 : {<<>>}, out2 : {<<>>}]

\* The first resolve, with the maps as they are at that point.
ResolveFirst ==
  /\ pure.fn = "input"
  /\ pure' = [pure EXCEPT !.fn = "first",
                          !.out1 = TwiceParams(pure.who, pure.items1)]
  /\ UNCHANGED << panelVars, hook, otp >>

\* The second resolve of the same selection, with the maps as they are then.
ResolveSecond ==
  /\ pure.fn = "first"
  /\ pure' = [pure EXCEPT !.fn = "second",
                          !.out2 = TwiceParams(pure.who, pure.items2)]
  /\ UNCHANGED << panelVars, hook, otp >>

NextTwice ==
  \/ ResolveFirst
  \/ ResolveSecond

SpecTwice == InitTwice /\ [][NextTwice]_vars

\* Two maps have the same entry, or both none, for a name.
SameEntry(m1, m2, n) ==
  /\ n \in DOMAIN m1 <=> n \in DOMAIN m2
  /\ n \in DOMAIN m1 /\ n \in DOMAIN m2 => m1[n] = m2[n]

\* The names of a selection the builder looks up: the first one as it is
\* in the hook; all of them, normalized, in the panel, none of them for the
\* open dropdown.
LookedUp(who, omit, k, names) ==
  IF who = "hook"
  THEN (IF names = <<>> THEN {} ELSE {names[1]})
  ELSE (IF k = omit THEN {} ELSE {normalize(names[i]) : i \in 1..Len(names)})

\* C20 (as the code has it): two resolves of the same selection with the
\* same open dropdown build the same parameters, and the same cache key,
\* whenever the name -> ID maps hold the same entries, at both points, for
\* the names the builder looks up.
C20_ParamsFunctionOfSelectionAndCache ==
  pure.fn = "second" =>
    LET v == IF pure.who = "hook" THEN Older ELSE Current
        m1 == mergeIdMaps(v, pure.items1)
        m2 == mergeIdMaps(v, pure.items2)
    IN  (\A k \in CascadeKeys :
           \A n \in LookedUp(pure.who, pure.omit, k, TwiceTemp[k]) : SameEntry(m1, m2, n))
        => /\ pure.out1 = pure.out2
           /\ cacheKey(pure.out1) = cacheKey(pure.out2)

\* C20, witness: two resolves of a selection of two Branch names have built
\* the same Branch parameter from maps that differ.
C20_Witness ==
  /\ pure.fn = "second"
  /\ pure.who = "hook"
  /\ Len(pure.names) >= 2
  /\ pure.items1 # pure.items2
  /\ pure.out1 = pure.out2
  /\ pure.out1["branch_id"] # <<>>

\* C20 (as claimed): two resolves of the same selection with the same open
\* dropdown build the same parameters.
C20_ParamsFunctionOfSelection ==
  pure.fn = "second" => pure.out1 = pure.out2

(***************************************************************************)
(* Two cascading responses merged into the name -> ID maps in both orders. *)
(***************************************************************************)
\* The lists of the two responses: n1 under two IDs; n1 and n3 are one key
\* once normalized.
MergeItemLists ==
  { <<>>,
    <<Item(1, n1)>>,
    <<Item(4, n1)>>,
    <<Item(1, n1), Item(2, n2)>>,
    <<Item(2, n2)>>,
    <<Item(3, n3)>> }

\* The maps before either response: empty, or seeded.
MergePrev(v, items) == SeedMaps(v, Uniform(items))

InitMerge ==
  /\ InitPanel(Current, FALSE)
  /\ hook = NoHook /\ otp = NoOtp
  /\ pure \in [fn : {"input"}, who : {Older, Current},
               items0 : {<<>>, <<Item(1, n1), Item(2, n2)>>},
               items1 : MergeItemLists, items2 : MergeItemLists,
               out12 : {EmptyIdMaps}, out21 : {EmptyIdMaps}]

\* The first response is applied first, then the second.
MergeInOrder ==
  /\ pure.fn = "input"
  /\ pure' = [pure EXCEPT
       !.fn = "inOrder",
       !.out12 = MergeResponse(pure.who,
                   MergeResponse(pure.who, MergePrev(pure.who, pure.items0),
                                 Uniform(pure.items1)),
                   Uniform(pure.items2))]
  /\ UNCHANGED << panelVars, hook, otp >>

\* The second response is applied first, then the first.
MergeOutOfOrder ==
  /\ pure.fn = "inOrder"
  /\ pure' = [pure EXCEPT
       !.fn = "bothOrders",
       !.out21 = MergeResponse(pure.who,
                   MergeResponse(pure.who, MergePrev(pure.who, pure.items0),
                                 Uniform(pure.items2)),
                   Uniform(pure.items1))]
  /\ UNCHANGED << panelVars, hook, otp >>

NextMerge ==
  \/ MergeInOrder
  \/ MergeOutOfOrder

SpecMerge == InitMerge /\ [][NextMerge]_vars

\* Two lists give every key they share the same ID.
Agree(v, items1, items2) ==
  LET m1 == mergeIdMaps(v, items1)
      m2 == mergeIdMaps(v, items2)
  IN  \A n \in DOMAIN m1 \cap DOMAIN m2 : m1[n] = m2[n]

\* C21 (as the code has it): two responses that give every key they share
\* (the name, normalized in the panel) the same ID leave the same maps
\* whichever of them is merged first.
C21_AgreeingMergesCommute ==
  (pure.fn = "bothOrders" /\ Agree(pure.who, pure.items1, pure.items2))
    => pure.out12 = pure.out21

\* C21, witness: two different responses that share a name have been merged
\* in both orders into seeded maps, with the same result.
C21_Witness ==
  /\ pure.fn = "bothOrders"
  /\ pure.items1 = <<Item(1, n1), Item(2, n2)>>
  /\ pure.items2 = <<Item(2, n2)>>
  /\ pure.items0 # <<>>
  /\ pure.out12 = pure.out21
  /\ pure.out12["branches"][NameKey(pure.who, n2)] = 2

\* C21 (as claimed): any two responses leave the same maps whichever of
\* them is merged first.
C21_MergesCommute ==
  pure.fn = "bothOrders" => pure.out12 = pure.out21

(***************************************************************************)
(* The round trip of a displayed name: the responses are merged into the   *)
(* name -> ID maps (write), then a selection that starts with a name of    *)
(* the first response is resolved by a parameter builder (read).           *)
(***************************************************************************)
\* The list of the response merged after the one the name is taken from.
LaterItemLists ==
  { <<>>,
    <<Item(2, n2)>>,
    <<Item(4, n1)>>,
    <<Item(3, n3)>>,
    <<Item(5, n3)>> }

\* The item of the first response whose name the user selects.
Picked == pure.items[pure.pick]

\* The selection: the picked name, then the names of pure.other.
RoundTripTemp ==
  [EmptyFilters EXCEPT !["branch"] = <<Picked.name>> \o pure.other]

\* The maps after both responses have been merged, keyed as variant v keys them.
RoundTripMaps(v) ==
  MergeResponse(v, MergeResponse(v, EmptyIdMaps, Uniform(pure.items)),
                Uniform(pure.later))

InitRoundTrip ==
  /\ InitPanel(Current, FALSE)
  /\ hook = NoHook /\ otp = NoOtp
  /\ pure \in {p \in [fn : {"input"}, items : PureItemLists \ {<<>>},
                      pick : 1..3, later : LaterItemLists,
                      other : {<<>>, <<n2>>}, out : {<<>>}] :
                 p.pick <= Len(p.items)}

\* The hook: maps written by mergeMap, read by toId.
RoundTripHook ==
  /\ pure.fn = "input"
  /\ pure' = [pure EXCEPT
       !.fn = "hook",
       !.out = hookParams(RoundTripTemp, RoundTripMaps(Older))["branch_id"]]
  /\ UNCHANGED << panelVars, hook, otp >>

\* The older FilterBar: maps written by mergeIdMaps, read by pickFirstId.
RoundTripOlder ==
  /\ pure.fn = "input"
  /\ pure' = [pure EXCEPT
       !.fn = "older",
       !.out = buildSelectedIds(Older, RoundTripTemp, RoundTripMaps(Older),
                                Null)["branch_id"]]
  /\ UNCHANGED << panelVars, hook, otp >>

\* The current FilterBar and MobileFilterBar: maps written by mergeIdMaps,
\* read by buildSelectedIds.toIds.
RoundTripCurrent ==
  /\ pure.fn = "input"
  /\ pure' = [pure EXCEPT
       !.fn = "current",
       !.out = buildSelectedIds(Current, RoundTripTemp, RoundTripMaps(Current),
                                Null)["branch_id"]]
  /\ UNCHANGED << panelVars, hook, otp >>

NextRoundTrip ==
  \/ RoundTripHook
  \/ RoundTripOlder
  \/ RoundTripCurrent

SpecRoundTrip == InitRoundTrip /\ [][NextRoundTrip]_vars

\* The key the component that resolved keeps a name under.
KeyIn(who, n) == IF who = "current" THEN normalize(n) ELSE n

\* An item written after the picked one, in the same response or in the
\* later one, has the picked name's key and another ID.
Overwritten ==
  \/ \E j \in (pure.pick + 1)..Len(pure.items) :
       /\ KeyIn(pure.fn, pure.items[j].name) = KeyIn(pure.fn, Picked.name)
       /\ pure.items[j].id # Picked.id
  \/ \E j \in 1..Len(pure.later) :
       /\ KeyIn(pure.fn, pure.later[j].name) = KeyIn(pure.fn, Picked.name)
       /\ pure.later[j].id # Picked.id

DependentsReplaced(c, res) ==
  \A d \in DependentsOf(c) :
    hook'.availableOptions[OptionOfKey(d)] = toNames(res[ListOfOption(OptionOfKey(d))])

\* The option lists of the other categories are as they were before the step.
OthersKept(c) ==
  \A d \in CascadeKeys \ DependentsOf(c) :
    hook'.availableOptions[OptionOfKey(d)] = hook.availableOptions[OptionOfKey(d)]

\* C23: when the response of a call made after a change of a cascading
\* category is applied and a category outside the cascade is the last one
\* changed, the option lists that depend on the cascading category are
\* replaced from the response.
C23_NonCascadingChangeKeepsCascade ==
  [][(/\ hook'.lastOp.op = "response"
      /\ hook.causes[hook'.lastOp.key] \in CascadeKeys
      /\ hook.lastChangedKeyRef \notin CascadeKeys)
     => \A res \in hook'.lastOp.applied :
          DependentsReplaced(hook.causes[hook'.lastOp.key], res)]_vars

\* C25: once a call has settled, with a response or with an error, its key
\* is not in pendingCallsRef, and a timer callback that builds the
\* parameters of a failed call again makes a new call.
C25_PendingCallsOnlyOutstanding ==
  [][/\ hook'.lastOp.op \in {"response", "failure"}
          => hook'.lastOp.key \notin DOMAIN hook'.pendingCalls
     /\ (hook'.lastOp.op = "fire" /\ hook'.lastOp.how \notin {"skipped", "cached"}
           /\ hook'.lastOp.key \notin Outstanding(hook.pendingCalls))
          => hook'.net # {}]_vars

\* C26: when the response of a call made after a change of a cascading
\* category is applied, the option lists replaced are those the dependency
\* table lists for that category, also when another cascading category has
\* been changed since.
C26_ResponseAppliedUnderItsCause ==
  [][(/\ hook'.lastOp.op = "response"
      /\ hook.causes[hook'.lastOp.key] \in CascadeKeys
      /\ hook.lastChangedKeyRef \in CascadeKeys)
     => \A res \in hook'.lastOp.applied :
          /\ DependentsReplaced(hook.causes[hook'.lastOp.key], res)
          /\ OthersKept(hook.causes[hook'.lastOp.key])]_vars

(***************************************************************************)
(* useCascadingFilters with a server that answers every call without       *)
(* parameters, the seed call included, with the unfiltered lists.          *)
(***************************************************************************)
\* The response to a call with the parameters of cache key key.
ResponsesTo(key) == IF key = {} THEN {SeedResponse} ELSE CascadeResponses

HookAnswerArrives ==
  \E key \in DOMAIN hook.pendingCalls : \E res \in ResponsesTo(key) :
    hookResponseArrives(key, res)

HookSeedAnswerArrives == hookSeedArrives(SeedResponse)

NextHookClear ==
  \/ HookChangeFilter
  \/ hookClearAllFilters
  \/ HookTimerFires
  \/ HookAnswerArrives
  \/ HookRequestFails
  \/ HookSeedAnswerArrives
  \/ CacheExpires
  \/ fetchFilterOptions

SpecHookClear == InitHook /\ [][NextHookClear]_vars

\* C27: once the options and the unfiltered lists are loaded, whenever no
\* cascading filter is selected, no timer is pending and no call is
\* outstanding, the seven option lists are the unfiltered lists.
C27_ClearingRestoresFullLists ==
  (/\ hook.on
   /\ hook.initialLoadRef
   /\ hook.seed = "done"
   /\ ~hasFilters(hook.filters)
   /\ hook.timer = {}
   /\ Outstanding(hook.pendingCalls) = {})
  => \A o \in OptionLists :
       hook.availableOptions[o] = toNames(SeedResponse[ListOfOption(o)])

(***************************************************************************)
(* useCascadingFilters in a session with one change of the applied         *)
(* filters, the last one, in which every timer expires, every call is      *)
(* answered and every cache entry expires in the end.                      *)
(***************************************************************************)
\* The one change of the applied filters the user makes.
HookLastChange == hook.lastChangedKeyRef = Null /\ HookChangeFilter

NextHookSettle ==
  \/ HookLastChange
  \/ HookTimerFires
  \/ HookResponseArrives
  \/ HookRequestFails
  \/ HookSeedArrives
  \/ hookSeedFails
  \/ CacheExpires
  \/ fetchFilterOptions

SpecHookSettle ==
  /\ InitHook
  /\ [][NextHookSettle]_vars
  /\ WF_vars(HookTimerFires)
  /\ WF_vars(HookResponseArrives \/ HookRequestFails)
  /\ WF_vars(HookSeedArrives \/ hookSeedFails)
  /\ WF_vars(CacheExpires)
  /\ WF_vars(fetchFilterOptions)

\* No timer of the hook is pending and no call is outstanding.
HookQuiescent == hook.timer = {} /\ Outstanding(hook.pendingCalls) = {}

\* C24: after the last change, one that leaves a cascading category
\* selected, the hook comes to rest: from some point on no timer is pending
\* and no call is outstanding.
C24_ResolveCyclesTerminate ==
  <>(hook.lastChangedKeyRef # Null /\ hasFilters(hook.filters)) => <>[]HookQuiescent

(***************************************************************************)
(* The frame of handleApplyFilters.                                        *)
(***************************************************************************)
\* C28: Done leaves the applied list of every category whose values did
\* not change as it was, members and order, so its first name, the one the
\* cascade parameter is built from, is the same before and after.
C28_ApplyKeepsUnchangedCategories ==
  [][lastOp'.op = "apply" =>
       \A k \in Keys :
         ~ValueChanged(filters[k], tempFilters[k]) =>
           /\ filters'[k] = filters[k]
           /\ filters[k] # <<>> => filters'[k][1] = filters[k][1]]_vars

\* C28, witness: Done has reported a change of Team Lead only, while two
\* Branch names are applied.
C28_Witness ==
  /\ lastOp.op = "apply"
  /\ calls = << <<"teamLead", <<n1>>>> >>
  /\ Len(filters["branch"]) = 2

(***************************************************************************)
(* OTPVerificationModal: its state, its three requests (send, verify,      *)
(* resend) and the buttons that are enabled.                               *)
(***************************************************************************)
MAX_OTP_ATTEMPTS == 3

\* The contact types of the radio group.
ContactTypes == {"applicant", "co_applicant"}

\* What the input holds: only digits, four at most.
OtpCodes == {<<>>, <<1, 2>>, <<1, 2, 3, 4>>}

\* contactMobile: the phone of the selected contact; the co-applicant of
\* the application has none.
contactMobile(contacts, type) ==
  IF contacts = "loaded" /\ type = "applicant" THEN {"phone"} ELSE {}

\* A mutant of validCode: every code is accepted.
validCode_Any(code) == TRUE

\* /^\d{4}$/.test(otpCode)
validCode(code) == Len(code) = 4 /\ \A i \in 1..Len(code) : code[i] \in 0..9

\* A mutant of attemptsExceeded: the attempts are never exceeded.
attemptsExceeded_Never(n) == FALSE

\* verificationAttempts >= MAX_OTP_ATTEMPTS, in handleVerify and in the
\* disabled attribute of the Verify button.
attemptsExceeded(n) == n >= MAX_OTP_ATTEMPTS

\* expiryAtMs && Date.now() >= expiryAtMs
otpExpired(expiry) == expiry = "expired"

\* What is recorded of a step of the modal: the operation, the request it
\* sent ("none" if none) and whether it invoked onSuccess.
OtpOp(name, req, called) == [op |-> name, sent |-> req, called |-> called]

\* The state after the close-reset effect, open or not.  isLoading, the
\* request in flight and the contacts request are not part of the reset.
resetOnClose(o) ==
  [o EXCEPT
     !.otpCode = <<>>,
     !.otpSent = FALSE,
     !.verificationAttempts = 0,
     !.resendCooldown = FALSE,
     !.expiry = "none",
     !.selectedContactType = Null,
     !.contacts = Null]

InitOtpState ==
  [on |-> TRUE,
   open |-> FALSE,
   selectedContactType |-> Null,
   otpCode |-> <<>>,
   otpSent |-> FALSE,
   isLoading |-> FALSE,
   verificationAttempts |-> 0,
   resendCooldown |-> FALSE,
   expiry |-> "none",
   contacts |-> Null,
   contactsLoading |-> FALSE,
   request |-> {},
   lastOp |-> OtpOp("mount", "none", FALSE)]

\* A request of the modal in flight: its kind, and whether the modal has
\* been closed since it was sent.
OtpRequest(kind) == [kind |-> kind, stale |-> FALSE]

MarkStale(reqs) == {[r EXCEPT !.stale = TRUE] : r \in reqs}

\* The parent opens the modal: the contacts are fetched.
otpOpens ==
  /\ otp.on
  /\ ~otp.open
  /\ otp' = [otp EXCEPT !.open = TRUE, !.contactsLoading = TRUE,
                        !.lastOp = OtpOp("open", "none", FALSE)]
  /\ UNCHANGED << panelVars, pure, hook >>

\* getApplicationContacts resolves: setContacts(data), open or not.
contactsArrive ==
  /\ otp.on
  /\ otp.contactsLoading
  /\ otp' = [otp EXCEPT !.contacts = "loaded", !.contactsLoading = FALSE,
                        !.lastOp = OtpOp("contacts", "none", FALSE)]
  /\ UNCHANGED << panelVars, pure, hook >>

\* The radio group, rendered once the contacts are no longer loading.
setSelectedContactType(type) ==
  /\ otp.on
  /\ otp.open
  /\ ~otp.contactsLoading
  /\ otp' = [otp EXCEPT !.selectedContactType = type,
                        !.lastOp = OtpOp("select", "none", FALSE)]
  /\ UNCHANGED << panelVars, pure, hook >>

\* The input, rendered once an OTP has been sent.
setOtpCode(code) ==
  /\ otp.on
  /\ otp.open
  /\ otp.otpSent
  /\ otp' = [otp EXCEPT !.otpCode = code,
                        !.lastOp = OtpOp("type", "none", FALSE)]
  /\ UNCHANGED << panelVars, pure, hook >>

\* onClose(): the parent closes the modal and the close-reset effect runs;
\* a request in flight stays in flight.
onClose(o, name, called) ==
  [resetOnClose(o) EXCEPT !.open = FALSE,
                          !.request = MarkStale(@),
                          !.lastOp = OtpOp(name, "none", called)]

\* The Cancel buttons, disabled while isLoading.
otpCancel ==
  /\ otp.on
  /\ otp.open
  /\ ~otp.isLoading
  /\ otp' = onClose(otp, "cancel", FALSE)
  /\ UNCHANGED << panelVars, pure, hook >>

\* Dialog.onOpenChange(false) (Escape, a click outside): closes only while
\* no OTP has been sent.
dialogOnOpenChange ==
  /\ otp.on
  /\ otp.open
  /\ ~otp.otpSent
  /\ otp' = onClose(otp, "dismiss", FALSE)
  /\ UNCHANGED << panelVars, pure, hook >>

\* handleSend (Send OTP, shown while no OTP has been sent, disabled while
\* isLoading).
handleSend ==
  /\ otp.on
  /\ otp.open
  /\ ~otp.otpSent
  /\ ~otp.isLoading
  /\ IF \/ otp.selectedContactType = Null
        \/ contactMobile(otp.contacts, otp.selectedContactType) = {}
     THEN otp' = [otp EXCEPT !.lastOp = OtpOp("send", "none", FALSE)]
     ELSE otp' = [otp EXCEPT !.isLoading = TRUE,
                             !.request = {OtpRequest("send")},
                             !.lastOp = OtpOp("send", "send", FALSE)]
  /\ UNCHANGED << panelVars, pure, hook >>

\* handleResend (Resend, shown once an OTP has been sent, disabled while
\* isLoading or cooling down).
handleResend ==
  /\ otp.on
  /\ otp.open
  /\ otp.otpSent
  /\ ~otp.isLoading
  /\ ~otp.resendCooldown
  /\ IF otp.selectedContactType = Null
     THEN otp' = [otp EXCEPT !.lastOp = OtpOp("resend", "none", FALSE)]
     ELSE otp' = [otp EXCEPT !.isLoading = TRUE,
                             !.request = {OtpRequest("resend")},
                             !.lastOp = OtpOp("resend", "resend", FALSE)]
  /\ UNCHANGED << panelVars, pure, hook >>

\* sendOTP or resendOTP resolves: setOtpSent(true); startCooldown();
\* startExpiry(); finally setIsLoading(false).  Whether the modal is still
\* open is not looked at.
otpSendSucceeds ==
  /\ otp.on
  /\ \E r \in otp.request :
       /\ r.kind \in {"send", "resend"}
       /\ otp' = [otp EXCEPT !.otpSent = TRUE,
                             !.resendCooldown = TRUE,
                             !.expiry = "running",
                             !.isLoading = FALSE,
                             !.request = {},
                             !.lastOp = OtpOp(IF r.kind = "send" THEN "sendSucceeds"
                                              ELSE "resendSucceeds", "none", FALSE)]
  /\ UNCHANGED << panelVars, pure, hook >>

\* sendOTP or resendOTP rejects: the error is shown.
otpSendFails ==
  /\ otp.on
  /\ \E r \in otp.request :
       /\ r.kind \in {"send", "resend"}
       /\ otp' = [otp EXCEPT !.isLoading = FALSE,
                             !.request = {},
                             !.lastOp = OtpOp(IF r.kind = "send" THEN "sendFails"
                                              ELSE "resendFails", "none", FALSE)]
  /\ UNCHANGED << panelVars, pure, hook >>

\* handleVerify (Verify OTP, shown once an OTP has been sent, disabled
\* while isLoading or when the attempts are exceeded).
handleVerify ==
  /\ otp.on
  /\ otp.open
  /\ otp.otpSent
  /\ ~otp.isLoading
  /\ ~attemptsExceeded(otp.verificationAttempts)
  /\ IF \/ otp.selectedContactType = Null
        \/ ~otp.otpSent
        \/ attemptsExceeded(otp.verificationAttempts)
        \/ ~validCode(otp.otpCode)
        \/ otpExpired(otp.expiry)
     THEN otp' = [otp EXCEPT !.lastOp = OtpOp("verify", "none", FALSE)]
     ELSE otp' = [otp EXCEPT !.isLoading = TRUE,
                             !.request = {OtpRequest("verify")},
                             !.lastOp = OtpOp("verify", "verify", FALSE)]
  /\ UNCHANGED << panelVars, pure, hook >>

\* verifyOTP resolves: await onSuccess(); onClose().  When onSuccess
\* rejects, the catch counts an attempt and the modal stays open.
otpVerifySucceeds(accepted) ==
  /\ otp.on
  /\ \E r \in otp.request :
       /\ r.kind = "verify"
       /\ IF accepted
          THEN otp' = [onClose(otp, "verifySucceeds", TRUE) EXCEPT
                         !.isLoading = FALSE, !.request = {}]
          ELSE otp' = [otp EXCEPT !.verificationAttempts = @ + 1,
                                  !.isLoading = FALSE,
                                  !.request = {},
                                  !.lastOp = OtpOp("verifySucceeds", "none", TRUE)]
  /\ UNCHANGED << panelVars, pure, hook >>

\* verifyOTP rejects: setVerificationAttempts(prev => prev + 1).
otpVerifyFails ==
  /\ otp.on
  /\ \E r \in otp.request :
       /\ r.kind = "verify"
       /\ otp' = [otp EXCEPT !.verificationAttempts = @ + 1,
                             !.isLoading = FALSE,
                             !.request = {},
                             !.lastOp = OtpOp("verifyFails", "none", FALSE)]
  /\ UNCHANGED << panelVars, pure, hook >>

\* The cooldown interval has counted down to 0.
cooldownEnds ==
  /\ otp.on
  /\ otp.resendCooldown
  /\ otp' = [otp EXCEPT !.resendCooldown = FALSE,
                        !.lastOp = OtpOp("cooldownEnds", "none", FALSE)]
  /\ UNCHANGED << panelVars, pure, hook >>

\* Date.now() has reached expiryAtMs.
otpExpires ==
  /\ otp.on
  /\ otp.expiry = "running"
  /\ otp' = [otp EXCEPT !.expiry = "expired",
                        !.lastOp = OtpOp("expires", "none", FALSE)]
  /\ UNCHANGED << panelVars, pure, hook >>

SelectContact == \E type \in ContactTypes : setSelectedContactType(type)

TypeCode == \E code \in OtpCodes : setOtpCode(code)

VerifySucceeds == \E accepted \in BOOLEAN : otpVerifySucceeds(accepted)

InitOtp == InitPanel(Current, FALSE) /\ pure = NoPure /\ hook = NoHook /\ otp = InitOtpState

NextOtp ==
  \/ otpOpens
  \/ contactsArrive
  \/ SelectContact
  \/ TypeCode
  \/ otpCancel
  \/ dialogOnOpenChange
  \/ handleSend
  \/ handleResend
  \/ otpSendSucceeds
  \/ otpSendFails
  \/ handleVerify
  \/ VerifySucceeds
  \/ otpVerifyFails
  \/ cooldownEnds
  \/ otpExpires

\* OTPVerificationModal under the clicks its buttons allow.
SpecOtp == InitOtp /\ [][NextOtp]_vars

\* C29: onSuccess is invoked only when a verifyOTP request made in this
\* opening of the modal has resolved, and a verifyOTP request is sent only
\* with a contact selected, an OTP sent, a code of exactly four digits, the
\* OTP not expired and fewer than MAX_OTP_ATTEMPTS attempts made.
C29_OtpGatesSuccess ==
  [][/\ otp'.lastOp.called =>
          /\ otp'.lastOp.op = "verifySucceeds"
          /\ \E r \in otp.request : r.kind = "verify" /\ ~r.stale
          /\ otp.open
     /\ otp'.lastOp.sent = "verify" =>
          /\ otp.open
          /\ otp.selectedContactType \in ContactTypes
          /\ otp.otpSent
          /\ Len(otp.otpCode) = 4
          /\ otp.expiry # "expired"
          /\ otp.verificationAttempts < 3]_vars

\* C29, witness: a verifyOTP request has resolved, onSuccess has been
\* invoked and the modal has closed.
C29_Witness ==
  /\ otp.on
  /\ otp.lastOp.op = "verifySucceeds"
  /\ otp.lastOp.called
  /\ ~otp.open

\* C30: no verifyOTP request is sent once verificationAttempts has reached 3,
\* verificationAttempts never exceeds 3, and it goes back to 0
\* only in the step that closes the modal.
C30_OtpAttemptsBounded ==
  [][/\ otp'.lastOp.sent = "verify" => otp.verificationAttempts < 3
     /\ otp'.verificationAttempts <= 3
     /\ otp'.verificationAttempts < otp.verificationAttempts =>
          /\ otp'.verificationAttempts = 0
          /\ otp.open
          /\ ~otp'.open]_vars

\* C30, witness: three attempts have failed and an OTP has been sent again
\* since: the attempts are still three and the modal is open.
C30_Witness ==
  /\ otp.on
  /\ otp.open
  /\ otp.verificationAttempts = 3
  /\ otp.lastOp.op = "resendSucceeds"

=============================================================================
